---- MODULE Spec2Model ----
(***************************************************************************)
(* A model of mongodb_retention.py: the MongoDB class (connect, close,     *)
(* is_master, cut_old_data, rebuild_indexes) and the __main__ block that   *)
(* drives it.  The database driver (pymongo), monthdelta and               *)
(* calendar.timegm are modelled by what they do for the calls the script   *)
(* makes.                                                                  *)
(***************************************************************************)
EXTENDS Integers, Sequences, FiniteSets, TLC

VARIABLES
    hosts,        \* args.server: how each listed endpoint behaves
    argRetention, \* the --retention token on the command line
    argRebuild,   \* --rebuild given
    today,        \* date.today()
    db,           \* the target database: one bag of documents per collection
    pc,           \* position of the single thread of control
    retention,    \* cmdline_args.retention after argparse
    conn,         \* self.__conn: 0 is None, otherwise the host it points at
    open,         \* per host, the number of client objects not yet closed
    log,          \* every driver interaction of this run, in order
    hostIdx,      \* loop variable of `for host in self.mongodb_host_with_port`
    collections,  \* the list returned by collection_names(0)
    collIdx,      \* loop variable of `for coll in collections`
    cut_off_date, \* cut_off_date
    cut_off,      \* cut_off_timestamp
    slave_found,  \* rebuild_indexes' flag
    results,      \* the (how_many, how_many_to_cut_off, how_many_left) lines logged
    exitStatus,   \* process exit status, -1 while running
    run,          \* number of the current invocation
    prevSwept,    \* the previous invocation completed its retention sweep
    prevResults,  \* the lines the previous invocation logged
    dbAtStart,    \* db when the current invocation started
    swept,        \* cut_old_data returned normally in this invocation
    outcome,      \* how the invocation ended, "running" until then
    lastCall,     \* the last method call made directly on the object
    ncalls        \* how many direct method calls were made

vars == <<hosts, argRetention, argRebuild, today, db, pc, retention, conn, open,
          log, hostIdx, collections, collIdx, cut_off_date, cut_off, slave_found,
          results,
          exitStatus, run, prevSwept, prevResults, dbAtStart, swept, outcome, lastCall,
          ncalls>>

----------------------------------------------------------------------------
(* Bounds of the model *)

\* hosts on the command line
MaxHosts == 2
\* collections in the target database
MaxColls == 2
\* documents in the target database
MaxDocs == 2
\* largest --retention value tried (the smallest is -1)
MaxRetention == 1
\* invocations of the script in a row
MaxRuns == 2
\* direct method calls on one object
MaxCalls == 4
\* largest small month count tried in the cut-off computation
MaxMonths == 13

----------------------------------------------------------------------------
(* Dates: datetime.date, monthdelta and calendar.timegm *)

IsLeap(y) == (y % 4 = 0) /\ ((y % 100 # 0) \/ (y % 400 = 0))

DaysInMonth(y, m) ==
    IF m = 2 THEN (IF IsLeap(y) THEN 29 ELSE 28)
    ELSE IF m \in {4, 6, 9, 11} THEN 30 ELSE 31

RECURSIVE DaysBeforeMonth(_, _)
DaysBeforeMonth(y, m) ==
    IF m <= 1 THEN 0 ELSE DaysBeforeMonth(y, m - 1) + DaysInMonth(y, m - 1)

DaysBeforeYear(y) ==
    (y - 1) * 365 + ((y - 1) \div 4) - ((y - 1) \div 100) + ((y - 1) \div 400)

\* date.toordinal()
ToOrdinal(d) == DaysBeforeYear(d.year) + DaysBeforeMonth(d.year, d.month) + d.day

EpochOrdinal == ToOrdinal([year |-> 1970, month |-> 1, day |-> 1])

\* date - monthdelta(n) with February always cut to 28 days
MonthDeltaSub_feb28(d, n) ==
    LET m0 == d.month + (0 - n) - 1
        y  == d.year + (m0 \div 12)
        m  == (m0 % 12) + 1
        dd == IF m = 2 /\ d.day > 28 THEN 28
              ELSE IF m \in {4, 6, 9, 11} /\ d.day > 30 THEN 30
              ELSE d.day
    IN  [year |-> y, month |-> m, day |-> dd]

\* date - monthdelta(n), that is date + monthdelta(-n): the month moves by -n
\* and the day is cut to 29 or 28 in February and to 30 in the 30-day months
MonthDeltaSub(d, n) ==
    LET m0 == d.month + (0 - n) - 1
        y  == d.year + (m0 \div 12)
        m  == (m0 % 12) + 1
        dd == IF m = 2
              THEN IF d.day >= 29 /\ y % 4 = 0 /\ (y % 100 # 0 \/ y % 400 = 0)
                   THEN 29
                   ELSE IF d.day > 28 THEN 28 ELSE d.day
              ELSE IF m \in {4, 6, 9, 11} /\ d.day > 30 THEN 30
              ELSE d.day
    IN  [year |-> y, month |-> m, day |-> dd]

\* date.replace(year, month, day) takes years MINYEAR..MAXYEAR only; monthdelta
\* turns its ValueError into OverflowError
DateInRange(d) == d.year >= 1 /\ d.year <= 9999

NoDate == [year |-> 0, month |-> 0, day |-> 0]

\* A number of seconds is kept as [day, sec] with 0 <= sec < 86400, a number of
\* milliseconds as [day, sec, ms] with 0 <= ms < 1000: neither fits 32 bits.
\* calendar.timegm(d.timetuple()): whole seconds since the epoch at 00:00:00 UTC
TimeGm(d) == [day |-> ToOrdinal(d) - EpochOrdinal, sec |-> 0]

Times1000(t) == [day |-> t.day, sec |-> t.sec, ms |-> 0]

ZeroTs == [day |-> 0, sec |-> 0, ms |-> 0]

CutOffTimestamp(d, n) == Times1000(TimeGm(MonthDeltaSub(d, n)))

\* {"timestamp": {"$lt": c}}: only a document that has a timestamp can match
TsLess(a, b) ==
    \/ a.day < b.day
    \/ (a.day = b.day /\ a.sec < b.sec)
    \/ (a.day = b.day /\ a.sec = b.sec /\ a.ms < b.ms)

----------------------------------------------------------------------------
(* The database: documents and collections *)

\* The kinds of document a collection may hold: one without a timestamp
\* field, and two with one (2018-02-27 23:59:59.999 and 2018-02-28 00:00:00.000
\* UTC, the millisecond before and the first millisecond of a day).
NoTs == [has |-> FALSE, ts |-> ZeroTs]
DocKinds ==
    { NoTs,
      [has |-> TRUE, ts |-> [day |-> 17589, sec |-> 86399, ms |-> 999]],
      [has |-> TRUE, ts |-> [day |-> 17590, sec |-> 0, ms |-> 0]] }

RECURSIVE SumOver(_, _)
SumOver(f, S) ==
    IF S = {} THEN 0
    ELSE LET k == CHOOSE x \in S : TRUE IN f[k] + SumOver(f, S \ {k})

\* collection.count()
Count(coll) == SumOver(coll, DocKinds)

Collections == { c \in [DocKinds -> 0..MaxDocs] : Count(c) <= MaxDocs }

RECURSIVE TotalDocs(_)
TotalDocs(d) == IF d = <<>> THEN 0 ELSE Count(Head(d)) + TotalDocs(Tail(d))

\* up to MaxColls collections holding up to MaxDocs documents between them
Databases ==
    UNION { { d \in [1..n -> Collections] : TotalDocs(d) <= MaxDocs } :
            n \in 0..MaxColls }

\* a selection that reads a missing timestamp as the smallest one
Matches_missing_as_oldest(k, c) == TsLess(k.ts, c)

\* the documents {"timestamp": {"$lt": c}} selects
Matches(k, c) == k.has /\ TsLess(k.ts, c)

\* collection.find({"timestamp": {"$lt": c}}).count()
FindCount(coll, c) == SumOver(coll, { k \in DocKinds : Matches(k, c) })

\* the filter written with $lte
Remove_lte(coll, c) ==
    [k \in DocKinds |-> IF k.has /\ ~TsLess(c, k.ts) THEN 0 ELSE coll[k]]

\* remove() that deletes a single matching document
Remove_one(coll, c) ==
    IF \E k \in DocKinds : Matches(k, c) /\ coll[k] > 0
    THEN LET k == CHOOSE x \in DocKinds : Matches(x, c) /\ coll[x] > 0
         IN  [coll EXCEPT ![k] = @ - 1]
    ELSE coll

\* collection.remove({"timestamp": {"$lt": c}}): every matching document goes
Remove(coll, c) == [k \in DocKinds |-> IF Matches(k, c) THEN 0 ELSE coll[k]]

----------------------------------------------------------------------------
(* The inputs *)

HostKinds == {"primary", "secondary", "unreachable"}
HostLists == UNION { [1..n -> HostKinds] : n \in 1..MaxHosts }

NoRetention == [kind |-> "None", n |-> 0]
RetentionArgs ==
    { NoRetention, [kind |-> "bad", n |-> 0] }
        \cup { [kind |-> "int", n |-> k] : k \in (0 - 1)..MaxRetention }

Todays == { [year |-> 2018, month |-> 3, day |-> 31] }

\* `if cmdline_args.retention:` - None and 0 are false, every other int is true
Truthy(r) == r.kind = "int" /\ r.n # 0

----------------------------------------------------------------------------
(* class MongoDB: the connection *)

Phase ==
    IF pc \in {"cut_hosts", "cut_colls"} THEN "retention"
    ELSE IF pc \in {"rb_hosts", "rb_colls"} THEN "rebuild"
    ELSE "main"

Ev(op, h, c) == [ph |-> Phase, op |-> op, host |-> h, coll |-> c]

\* the connection part of the object, as one value
M == [conn |-> conn, open |-> open, log |-> log]

\* Unopened -> Open -> Closed, read off __conn and what was opened so far
ConnState ==
    IF conn # 0 THEN "Open"
    ELSE IF \E i \in DOMAIN log : log[i].op = "open" THEN "Closed"
    ELSE "Unopened"

\* close() that forgets to unset __conn
close_keeps_conn(m) ==
    IF m.conn = 0 THEN m
    ELSE [m EXCEPT !.open = [m.open EXCEPT ![m.conn] = @ - 1],
                   !.log = Append(m.log, Ev("close", m.conn, 0))]

\* close(): nothing when __conn is None, otherwise close the client and unset it
close(m) ==
    IF m.conn = 0 THEN m
    ELSE [conn |-> 0,
          open |-> [m.open EXCEPT ![m.conn] = @ - 1],
          log  |-> Append(m.log, Ev("close", m.conn, 0))]

\* connect() that does not close the client it replaces
connect_noclose(m, h) ==
    IF hosts[h] = "unreachable"
    THEN [m EXCEPT !.log = Append(@, Ev("connect_error", h, 0))]
    ELSE [conn |-> h,
          open |-> [m.open EXCEPT ![h] = @ + 1],
          log  |-> Append(m.log, Ev("open", h, 0))]

\* connect() that gives up before closing when the client cannot be built
connect_keep_on_error(m, h) ==
    IF hosts[h] = "unreachable"
    THEN [m EXCEPT !.log = Append(@, Ev("connect_error", h, 0))]
    ELSE LET m1 == IF m.conn # 0 THEN close(m) ELSE m
         IN  [conn |-> h,
              open |-> [m1.open EXCEPT ![h] = @ + 1],
              log  |-> Append(m1.log, Ev("open", h, 0))]

\* connect(host): close what is open, then build a client; a PyMongoError of
\* the constructor is logged and swallowed, and __conn stays None
connect(m, h) ==
    LET m1 == IF m.conn # 0 THEN close(m) ELSE m
    IN  IF hosts[h] = "unreachable"
        THEN [m1 EXCEPT !.log = Append(@, Ev("connect_error", h, 0))]
        ELSE [conn |-> h,
              open |-> [m1.open EXCEPT ![h] = @ + 1],
              log  |-> Append(m1.log, Ev("open", h, 0))]

\* is_master() that answers "not primary" when there is no connection
is_master_guarded(m, fault) ==
    IF m.conn = 0 THEN [m |-> m, res |-> "false"]
    ELSE IF fault THEN [m |-> m, res |-> "PyMongoError"]
    ELSE IF hosts[m.conn] = "primary"
    THEN [m   |-> [m EXCEPT !.log = Append(@, Ev("isMaster=true", m.conn, 0))],
          res |-> "true"]
    ELSE [m   |-> [m EXCEPT !.log = Append(@, Ev("isMaster=false", m.conn, 0))],
          res |-> "false"]

\* is_master(): self.__conn['admin'] raises TypeError when __conn is None;
\* the command may fail in the driver; otherwise the host's own answer
is_master(m, fault) ==
    IF m.conn = 0 THEN [m |-> m, res |-> "TypeError"]
    ELSE IF fault THEN [m |-> m, res |-> "PyMongoError"]
    ELSE IF hosts[m.conn] = "primary"
    THEN [m   |-> [m EXCEPT !.log = Append(@, Ev("isMaster=true", m.conn, 0))],
          res |-> "true"]
    ELSE [m   |-> [m EXCEPT !.log = Append(@, Ev("isMaster=false", m.conn, 0))],
          res |-> "false"]

SetM(m) == conn' = m.conn /\ open' = m.open /\ log' = m.log

\* an exception that is caught, after which the script goes on to its end
Raise_caught(exc) ==
    pc' = "main_close" /\ exitStatus' = exitStatus /\ outcome' = exc

\* an uncaught exception ends the process with status 1
Raise(exc) == pc' = "exited" /\ exitStatus' = 1 /\ outcome' = exc

\* mongo_db.collection_names(0)
collection_names == [i \in 1..Len(db) |-> i]

----------------------------------------------------------------------------
(* Initial state: a command line, a cluster and a database *)

NoCall == [op |-> "none", arg |-> 0, res |-> "none"]

inputs == <<hosts, argRetention, argRebuild, today>>
loopvars ==
    <<hostIdx, collections, collIdx, cut_off_date, cut_off, slave_found>>
history == <<run, prevSwept, prevResults, dbAtStart>>
api == <<lastCall, ncalls>>

Fresh ==
    /\ pc = "start"
    /\ retention = NoRetention
    /\ conn = 0
    /\ open = [i \in 1..Len(hosts) |-> 0]
    /\ log = <<>>
    /\ hostIdx = 0
    /\ collections = <<>>
    /\ collIdx = 0
    /\ cut_off_date = NoDate
    /\ cut_off = ZeroTs
    /\ slave_found = FALSE
    /\ results = <<>>
    /\ exitStatus = 0 - 1
    /\ swept = FALSE
    /\ outcome = "running"

Init ==
    /\ hosts \in HostLists
    /\ argRetention \in RetentionArgs
    /\ argRebuild \in BOOLEAN
    /\ today \in Todays
    /\ db \in Databases
    /\ Fresh
    /\ run = 1
    /\ prevSwept = FALSE
    /\ prevResults = <<>>
    /\ dbAtStart = db
    /\ lastCall = NoCall
    /\ ncalls = 0

----------------------------------------------------------------------------
(* __main__ *)

\* parse_cmdline_args() and MongoDB(cmdline_args): a --retention value that is
\* no integer makes argparse exit with status 2
Main_Parse ==
    /\ pc = "start"
    /\ IF argRetention.kind = "bad"
       THEN /\ pc' = "exited" /\ exitStatus' = 2 /\ outcome' = "usage"
            /\ UNCHANGED retention
       ELSE /\ retention' = argRetention
            /\ pc' = "main_retention"
            /\ UNCHANGED <<exitStatus, outcome>>
    /\ UNCHANGED <<inputs, db, conn, open, log, loopvars, results, history,
                   swept, api>>

\* if cmdline_args.retention: ... else: skip
Main_Retention ==
    /\ pc = "main_retention"
    /\ IF Truthy(retention)
       THEN pc' = "cut_hosts" /\ hostIdx' = 1
       ELSE pc' = "main_rebuild" /\ UNCHANGED hostIdx
    /\ UNCHANGED <<inputs, db, retention, conn, open, log, collections, collIdx,
                   cut_off_date, cut_off, slave_found, results, exitStatus,
                   history, swept,
                   outcome, api>>

\* if cmdline_args.rebuild: ... else: skip
Main_Rebuild ==
    /\ pc = "main_rebuild"
    /\ IF argRebuild
       THEN pc' = "rb_hosts" /\ hostIdx' = 1 /\ slave_found' = FALSE
       ELSE pc' = "main_close" /\ UNCHANGED <<hostIdx, slave_found>>
    /\ UNCHANGED <<inputs, db, retention, conn, open, log, collections, collIdx,
                   cut_off_date, cut_off, results, exitStatus, history, swept,
                   outcome, api>>

\* the script ending without its last call
Main_NoClose ==
    /\ pc = "main_close"
    /\ pc' = "exited" /\ exitStatus' = 0 /\ outcome' = "done"
    /\ UNCHANGED <<inputs, db, retention, conn, open, log, loopvars, results,
                   history, swept, api>>

\* mongodb.close() and the normal end of the script
Main_Close ==
    /\ pc = "main_close"
    /\ SetM(close(M))
    /\ pc' = "exited" /\ exitStatus' = 0 /\ outcome' = "done"
    /\ UNCHANGED <<inputs, db, retention, loopvars, results, history, swept,
                   api>>

----------------------------------------------------------------------------
(* MongoDB.cut_old_data *)

\* the driver calls of one pass of a loop body, up to and including the one
\* that fails (all of them when none fails)
Issued(ops, fault, c) ==
    [i \in 1..(IF fault = 0 THEN Len(ops) ELSE fault) |-> Ev(ops[i], conn, c)]

CutOps == <<"count", "find_count", "remove", "count">>
RebuildOps == <<"index_information", "reindex">>

\* the loop without its break
cut_stop_never(res) == FALSE

\* the role test inverted
cut_stop_inverted(res) == res = "false"

\* `if self.is_master(): ... break`
cut_stop(res) == res = "true"

\* one pass of `for host in ...`: connect, is_master, and on a primary the
\* break, collection_names(0) and the cut-off computation
cut_old_data_probe ==
    /\ pc = "cut_hosts"
    /\ hostIdx <= Len(hosts)
    /\ \E fault \in {"none", "isMaster", "collection_names"} :
         LET r == is_master(connect(M, hostIdx), fault = "isMaster")
             names == r.m.log \o <<Ev("collection_names", r.m.conn, 0)>>
         IN  IF r.res \in {"TypeError", "PyMongoError"}
             THEN /\ SetM(r.m)
                  /\ Raise(r.res)
                  /\ UNCHANGED <<loopvars, swept>>
             ELSE IF ~cut_stop(r.res)
             THEN /\ SetM(r.m)
                  /\ hostIdx' = hostIdx + 1
                  /\ UNCHANGED <<pc, exitStatus, outcome, collections, collIdx,
                                 cut_off_date, cut_off, slave_found, swept>>
             ELSE IF fault = "collection_names"
             THEN /\ SetM([r.m EXCEPT !.log = names])
                  /\ Raise("PyMongoError")
                  /\ UNCHANGED <<loopvars, swept>>
             ELSE IF ~DateInRange(MonthDeltaSub(today, retention.n))
             THEN /\ SetM([r.m EXCEPT !.log = names])
                  /\ collections' = collection_names
                  /\ Raise("OverflowError")
                  /\ UNCHANGED <<hostIdx, collIdx, cut_off_date, cut_off,
                                 slave_found, swept>>
             ELSE /\ SetM([r.m EXCEPT !.log = names])
                  /\ collections' = collection_names
                  /\ cut_off_date' = MonthDeltaSub(today, retention.n)
                  /\ cut_off' = CutOffTimestamp(today, retention.n)
                  /\ collIdx' = 1
                  /\ pc' = IF collection_names = <<>> THEN "main_rebuild"
                                                      ELSE "cut_colls"
                  /\ swept' = (collection_names = <<>>)
                  /\ UNCHANGED <<hostIdx, slave_found, exitStatus, outcome>>
    /\ UNCHANGED <<inputs, db, retention, results, history, api>>

\* the error only logged, and cut_old_data returning to __main__
primary_not_found_returns ==
    /\ pc' = "main_rebuild"
    /\ exitStatus' = exitStatus
    /\ outcome' = "primary_not_found"

\* logging.error('Primary server not found! Exiting') and sys.exit(1)
primary_not_found_exit ==
    pc' = "exited" /\ exitStatus' = 1 /\ outcome' = "primary_not_found"

\* the else of the for loop: no host answered as primary
cut_old_data_notfound ==
    /\ pc = "cut_hosts"
    /\ hostIdx > Len(hosts)
    /\ primary_not_found_exit
    /\ UNCHANGED <<inputs, db, retention, conn, open, log, loopvars, results,
                   history, swept, api>>

\* one pass of `for coll in collections`: count, count the matches, remove
\* them, count again.  A failed remove may or may not have taken effect.
cut_old_data_coll ==
    /\ pc = "cut_colls"
    /\ collIdx <= Len(collections)
    /\ \E fault \in 0..Len(CutOps), applied \in BOOLEAN :
         LET c == collections[collIdx]
             how_many == Count(db[c])
             how_many_to_cut_off == FindCount(db[c], cut_off)
             after == Remove(db[c], cut_off)
             how_many_left == Count(after)
         IN  /\ log' = log \o Issued(CutOps, fault, c)
             /\ db' = IF fault \in {0, 4} \/ (fault = 3 /\ applied)
                      THEN [db EXCEPT ![c] = after] ELSE db
             /\ IF fault # 0
                THEN /\ Raise("PyMongoError")
                     /\ UNCHANGED <<results, collIdx, swept>>
                ELSE /\ results' = Append(results,
                            [coll |-> c, total |-> how_many,
                             removed |-> how_many_to_cut_off,
                             left |-> how_many_left])
                     /\ collIdx' = collIdx + 1
                     /\ pc' = IF collIdx = Len(collections) THEN "main_rebuild"
                                                            ELSE "cut_colls"
                     /\ swept' = (collIdx = Len(collections))
                     /\ UNCHANGED <<exitStatus, outcome>>
    /\ UNCHANGED <<inputs, retention, conn, open, hostIdx, collections,
                   cut_off_date, cut_off,
                   slave_found, history, api>>

----------------------------------------------------------------------------
(* MongoDB.rebuild_indexes *)

\* the loop without its continue
rebuild_skip_never(res) == FALSE

\* the sweep without its fatal exit
rebuild_fatal_never(found) == FALSE

\* `if self.is_master(): continue`
rebuild_skip(res) == res = "true"

\* `if not slave_found:` after the loop
rebuild_fatal(found) == ~found

\* the sweep ending at the first secondary it has served
rebuild_next_break(h) == Len(hosts) + 1

\* the end of the loop body for a secondary: on to the next host of the list
rebuild_next(h) == h + 1

\* one pass of `for host in ...`: connect, is_master, `continue` on a primary,
\* otherwise set slave_found and list the collections
rebuild_indexes_probe ==
    /\ pc = "rb_hosts"
    /\ hostIdx <= Len(hosts)
    /\ \E fault \in {"none", "isMaster", "collection_names"} :
         LET r == is_master(connect(M, hostIdx), fault = "isMaster")
             names == r.m.log \o <<Ev("collection_names", r.m.conn, 0)>>
         IN  IF r.res \in {"TypeError", "PyMongoError"}
             THEN /\ SetM(r.m)
                  /\ Raise(r.res)
                  /\ UNCHANGED loopvars
             ELSE IF rebuild_skip(r.res)
             THEN /\ SetM(r.m)
                  /\ hostIdx' = hostIdx + 1
                  /\ UNCHANGED <<pc, exitStatus, outcome, collections, collIdx,
                                 cut_off_date, cut_off, slave_found>>
             ELSE IF fault = "collection_names"
             THEN /\ SetM([r.m EXCEPT !.log = names])
                  /\ slave_found' = TRUE
                  /\ Raise("PyMongoError")
                  /\ UNCHANGED <<hostIdx, collections, collIdx, cut_off_date,
                                 cut_off>>
             ELSE /\ SetM([r.m EXCEPT !.log = names])
                  /\ slave_found' = TRUE
                  /\ collections' = collection_names
                  /\ collIdx' = 1
                  /\ IF collection_names = <<>>
                     THEN hostIdx' = rebuild_next(hostIdx) /\ pc' = "rb_hosts"
                     ELSE hostIdx' = hostIdx /\ pc' = "rb_colls"
                  /\ UNCHANGED <<cut_off_date, cut_off, exitStatus, outcome>>
    /\ UNCHANGED <<inputs, db, retention, results, history, swept, api>>

\* one pass of `for coll in collections`: index_information, reindex
rebuild_indexes_coll ==
    /\ pc = "rb_colls"
    /\ collIdx <= Len(collections)
    /\ \E fault \in 0..Len(RebuildOps) :
         /\ log' = log \o Issued(RebuildOps, fault, collections[collIdx])
         /\ IF fault # 0
            THEN /\ Raise("PyMongoError")
                 /\ UNCHANGED <<hostIdx, collIdx>>
            ELSE /\ collIdx' = collIdx + 1
                 /\ IF collIdx = Len(collections)
                    THEN hostIdx' = rebuild_next(hostIdx) /\ pc' = "rb_hosts"
                    ELSE hostIdx' = hostIdx /\ pc' = "rb_colls"
                 /\ UNCHANGED <<exitStatus, outcome>>
    /\ UNCHANGED <<inputs, db, retention, conn, open, collections,
                   cut_off_date, cut_off,
                   slave_found, results, history, swept, api>>

\* after the loop: sys.exit(1) when no secondary was found
rebuild_indexes_end ==
    /\ pc = "rb_hosts"
    /\ hostIdx > Len(hosts)
    /\ IF rebuild_fatal(slave_found)
       THEN pc' = "exited" /\ exitStatus' = 1 /\ outcome' = "secondary_not_found"
       ELSE pc' = "main_close" /\ UNCHANGED <<exitStatus, outcome>>
    /\ UNCHANGED <<inputs, db, retention, conn, open, log, loopvars, results,
                   history, swept, api>>

----------------------------------------------------------------------------
(* The same command line run again after a retention sweep that completed, *)
(* against the database as it was left                                     *)

Rerun ==
    /\ pc = "exited"
    /\ run < MaxRuns
    /\ swept
    /\ pc' = "start"
    /\ retention' = NoRetention
    /\ conn' = 0
    /\ open' = [i \in 1..Len(hosts) |-> 0]
    /\ log' = <<>>
    /\ hostIdx' = 0
    /\ collections' = <<>>
    /\ collIdx' = 0
    /\ cut_off_date' = NoDate
    /\ cut_off' = ZeroTs
    /\ slave_found' = FALSE
    /\ results' = <<>>
    /\ exitStatus' = 0 - 1
    /\ swept' = FALSE
    /\ outcome' = "running"
    /\ run' = run + 1
    /\ prevSwept' = swept
    /\ prevResults' = results
    /\ dbAtStart' = db
    /\ UNCHANGED <<inputs, db, api>>

Next ==
    \/ Main_Parse
    \/ Main_Retention
    \/ cut_old_data_probe
    \/ cut_old_data_notfound
    \/ cut_old_data_coll
    \/ Main_Rebuild
    \/ rebuild_indexes_probe
    \/ rebuild_indexes_coll
    \/ rebuild_indexes_end
    \/ Main_Close
    \/ Rerun

Spec == Init /\ [][Next]_vars

----------------------------------------------------------------------------
(* The methods of the object called directly, in any order *)

InitApi ==
    /\ hosts \in HostLists
    /\ argRetention = NoRetention
    /\ argRebuild = FALSE
    /\ today \in Todays
    /\ db = <<>>
    /\ pc = "api"
    /\ retention = NoRetention
    /\ conn = 0
    /\ open = [i \in 1..Len(hosts) |-> 0]
    /\ log = <<>>
    /\ hostIdx = 0
    /\ collections = <<>>
    /\ collIdx = 0
    /\ cut_off_date = NoDate
    /\ cut_off = ZeroTs
    /\ slave_found = FALSE
    /\ results = <<>>
    /\ exitStatus = 0 - 1
    /\ swept = FALSE
    /\ outcome = "running"
    /\ run = 1
    /\ prevSwept = FALSE
    /\ prevResults = <<>>
    /\ dbAtStart = db
    /\ lastCall = NoCall
    /\ ncalls = 0

ApiFrame ==
    UNCHANGED <<inputs, db, pc, retention, loopvars, results, exitStatus,
                history, swept, outcome>>

ApiConnect(h) ==
    /\ pc = "api" /\ ncalls < MaxCalls
    /\ SetM(connect(M, h))
    /\ lastCall' = [op |-> "connect", arg |-> h, res |-> "returned"]
    /\ ncalls' = ncalls + 1
    /\ ApiFrame

ApiClose ==
    /\ pc = "api" /\ ncalls < MaxCalls
    /\ SetM(close(M))
    /\ lastCall' = [op |-> "close", arg |-> 0, res |-> "returned"]
    /\ ncalls' = ncalls + 1
    /\ ApiFrame

ApiIsMaster ==
    /\ pc = "api" /\ ncalls < MaxCalls
    /\ \E fault \in BOOLEAN :
         LET r == is_master(M, fault)
         IN  /\ SetM(r.m)
             /\ lastCall' = [op |-> "is_master", arg |-> 0, res |-> r.res]
    /\ ncalls' = ncalls + 1
    /\ ApiFrame

NextApi ==
    \/ \E h \in 1..Len(hosts) : ApiConnect(h)
    \/ ApiClose
    \/ ApiIsMaster

SpecApi == InitApi /\ [][NextApi]_vars

----------------------------------------------------------------------------
(* The cut-off computation alone, for many dates and month counts *)

\* years tried for date.today(): a century year that is no leap year, one
\* that is, a leap year and the two after it
DateYears == {1900, 2000, 2016, 2017, 2018}

Dates ==
    { d \in [year : DateYears, month : 1..12, day : 1..31] :
        d.day <= DaysInMonth(d.year, d.month) }

\* month counts tried: the small ones, and the two around the count that
\* takes March 2018 back to January of year 1
MonthCounts == 0..MaxMonths \cup {24206, 24207}

InitDate ==
    /\ hosts = <<"primary">>
    /\ argRetention \in { [kind |-> "int", n |-> k] : k \in MonthCounts }
    /\ argRebuild = FALSE
    /\ today \in Dates
    /\ db = <<>>
    /\ pc = "date"
    /\ retention = argRetention
    /\ conn = 0
    /\ open = [i \in 1..Len(hosts) |-> 0]
    /\ log = <<>>
    /\ hostIdx = 0
    /\ collections = <<>>
    /\ collIdx = 0
    /\ cut_off_date = NoDate
    /\ cut_off = ZeroTs
    /\ slave_found = FALSE
    /\ results = <<>>
    /\ exitStatus = 0 - 1
    /\ swept = FALSE
    /\ outcome = "running"
    /\ run = 1
    /\ prevSwept = FALSE
    /\ prevResults = <<>>
    /\ dbAtStart = db
    /\ lastCall = NoCall
    /\ ncalls = 0

\* today - monthdelta(retention) and calendar.timegm(...) * 1000
cut_off_compute ==
    /\ pc = "date"
    /\ pc' = "date_done"
    /\ IF ~DateInRange(MonthDeltaSub(today, retention.n))
       THEN /\ outcome' = "OverflowError"
            /\ UNCHANGED <<cut_off_date, cut_off>>
       ELSE /\ cut_off_date' = MonthDeltaSub(today, retention.n)
            /\ cut_off' = CutOffTimestamp(today, retention.n)
            /\ outcome' = "computed"
    /\ UNCHANGED <<inputs, db, retention, conn, open, log, hostIdx, collections,
                   collIdx, slave_found, results, exitStatus, history, swept, api>>

NextDate == cut_off_compute

SpecDate == InitDate /\ [][NextDate]_vars

----------------------------------------------------------------------------
(* Reading the log *)

ConnectOps == {"open", "connect_error"}
DataOps == {"count", "find_count", "remove"}
IndexOps == {"index_information", "reindex"}

\* the connection attempts of a sweep, in order
Attempts(ph) == SelectSeq(log, LAMBDA e : e.ph = ph /\ e.op \in ConnectOps)

\* host h answered the role query of sweep ph with op
Reported(ph, h, op) ==
    \E i \in DOMAIN log : log[i].ph = ph /\ log[i].op = op /\ log[i].host = h

PrimaryReported(ph) == \E h \in DOMAIN hosts : Reported(ph, h, "isMaster=true")

\* a document of kind k is older than the cut-off of this invocation
IsOld(k) ==
    /\ k.has
    /\ \/ k.ts.day < cut_off.day
       \/ (k.ts.day = cut_off.day /\ k.ts.sec < cut_off.sec)
       \/ (k.ts.day = cut_off.day /\ k.ts.sec = cut_off.sec
              /\ k.ts.ms < cut_off.ms)

TotalOpen == SumOver(open, DOMAIN hosts)

----------------------------------------------------------------------------
(* Primary discovery of the retention sweep *)

\* C1: the retention sweep connects to the hosts in list order, one attempt
\* per host, and makes no connection attempt after a host has reported primary.
C1_StopsAtFirstPrimary ==
    /\ \A i \in DOMAIN Attempts("retention") : Attempts("retention")[i].host = i
    /\ \A i \in DOMAIN log :
         (log[i].ph = "retention" /\ log[i].op = "isMaster=true")
            => \A j \in (i + 1)..Len(log) :
                 ~(log[j].ph = "retention" /\ log[j].op \in ConnectOps)

\* [primary, secondary]: the run ended after connecting to the first host only
C1_Witness ==
    /\ hosts = <<"primary", "secondary">>
    /\ outcome = "done" /\ swept /\ ~argRebuild
    /\ Len(Attempts("retention")) = 1
    /\ Len(results) > 0

\* C2: when no host reports primary, no count and no delete is issued, the
\* database is as it was, and once cut_old_data is over the process has ended
\* with a non-zero status.
C2_NoPrimaryNoDelete ==
    ~PrimaryReported("retention")
        => /\ \A i \in DOMAIN log : log[i].op \notin DataOps
           /\ db = dbAtStart
           /\ (Truthy(retention) /\ pc \notin {"main_retention", "cut_hosts"})
                 => (pc = "exited" /\ exitStatus # 0)

\* two secondaries and a collection holding an old document: the sweep ended
\* in the fatal exit
C2_Witness ==
    /\ outcome = "primary_not_found"
    /\ Len(hosts) = 2
    /\ retention.n = 1
    /\ \E c \in DOMAIN db : \E k \in DocKinds :
         k.has /\ k.ts.ms = 999 /\ db[c][k] > 0

----------------------------------------------------------------------------
(* The retention sweep proper *)

\* C3: after cut_old_data has returned, in every collection no document older
\* than the cut-off is left, every other document is still there, and each
\* logged line has left = total - removed, with total and left the sizes of
\* the collection before and after.
C3_SweepResult ==
    swept =>
        /\ DOMAIN results = DOMAIN db
        /\ \A c \in DOMAIN db :
             /\ \A k \in DocKinds :
                  db[c][k] = IF IsOld(k) THEN 0 ELSE dbAtStart[c][k]
             /\ results[c].coll = c
             /\ results[c].total = Count(dbAtStart[c])
             /\ results[c].left = Count(db[c])
             /\ results[c].left = results[c].total - results[c].removed

\* a collection that lost a document and kept another
C3_Witness ==
    /\ swept
    /\ \E i \in DOMAIN results : results[i].removed > 0 /\ results[i].left > 0

----------------------------------------------------------------------------
(* The index rebuild sweep *)

\* C4: index metadata is fetched and reindex issued only on a host that
\* answered non-primary in this sweep, never on one that answered primary.
C4_ReindexOnSecondariesOnly ==
    \A i \in DOMAIN log :
        log[i].op \in IndexOps
            => /\ \E j \in 1..(i - 1) :
                    /\ log[j].ph = "rebuild"
                    /\ log[j].op = "isMaster=false"
                    /\ log[j].host = log[i].host
               /\ ~Reported("rebuild", log[i].host, "isMaster=true")

\* a primary was probed and skipped, and a reindex was issued elsewhere
C4_Witness ==
    /\ PrimaryReported("rebuild")
    /\ \E i \in DOMAIN log : log[i].op = "reindex"

\* C5: when every host answers primary, no reindex is issued and the sweep
\* ends the process with a non-zero status; when some host answered
\* non-primary the fatal exit is not taken.
C5_SecondaryNotFound ==
    /\ (\A h \in DOMAIN hosts : Reported("rebuild", h, "isMaster=true"))
          => /\ \A i \in DOMAIN log : log[i].op \notin IndexOps
             /\ pc # "rb_hosts"
                   => (pc = "exited" /\ exitStatus # 0
                          /\ outcome = "secondary_not_found")
    /\ (\E h \in DOMAIN hosts : Reported("rebuild", h, "isMaster=false"))
          => outcome # "secondary_not_found"

\* two primaries: the fatal exit
C5_Witness ==
    /\ outcome = "secondary_not_found"
    /\ hosts = <<"primary", "primary">>

----------------------------------------------------------------------------
(* The connection *)

\* C6: at most one client is open, it is the one __conn points at, and between
\* two opens the first client was closed.
C6_OneConnection ==
    /\ TotalOpen <= 1
    /\ conn = 0 => TotalOpen = 0
    /\ conn # 0 => open[conn] = 1
    /\ \A i, j \in DOMAIN log :
         (i < j /\ log[i].op = "open" /\ log[j].op = "open")
            => \E k \in (i + 1)..(j - 1) :
                 log[k].op = "close" /\ log[k].host = log[i].host

\* connect(X) then connect(Y), X # Y: X was closed and Y is the open one
C6_Witness ==
    \E i \in DOMAIN log :
        /\ i + 2 = Len(log)
        /\ log[i].op = "open" /\ log[i + 1].op = "close" /\ log[i + 2].op = "open"
        /\ log[i].host = log[i + 1].host /\ log[i].host # log[i + 2].host
        /\ conn = log[i + 2].host /\ lastCall.op = "connect"


\* a step that is a direct call of close, and what it must do
CloseStep == lastCall'.op = "close" /\ ncalls' = ncalls + 1

CloseOk ==
    /\ lastCall'.res = "returned"
    /\ ConnState = "Open" => ConnState' = "Closed"
    /\ ConnState # "Open" => (UNCHANGED <<conn, open, log>> /\ ConnState' = ConnState)

\* a step that is a direct call of connect, and what it must do
ConnectStep == lastCall'.op = "connect" /\ ncalls' = ncalls + 1

ConnectOk ==
    IF hosts[lastCall'.arg] # "unreachable"
    THEN ConnState' = "Open" /\ conn' = lastCall'.arg
    ELSE /\ conn' = 0
         /\ ConnState' = IF ConnState = "Unopened" THEN "Unopened" ELSE "Closed"

\* C9 as amended: close on an open connection closes it; close on a closed or
\* never-opened connection returns without error and changes nothing; connect
\* ends in Open on the host asked for when the client is built, and ends with
\* no connection (Closed after an Open, otherwise as before) when building it
\* fails.
C9_CloseAndConnect ==
    [][(CloseStep => CloseOk) /\ (ConnectStep => ConnectOk)]_vars

\* C9 as stated: every connect ends in Open.
C9_ConnectAlwaysOpens ==
    [][(CloseStep => CloseOk) /\ (ConnectStep => ConnState' = "Open")]_vars

\* a connect that failed on an open connection, which is now closed, followed
\* by a close that had nothing to do
C9_Witness ==
    /\ lastCall.op = "close"
    /\ ConnState = "Closed"
    /\ Len(log) >= 3
    /\ log[Len(log)].op = "connect_error"
    /\ log[Len(log) - 1].op = "close"

----------------------------------------------------------------------------
(* Connection failures during a sweep *)

\* C7: once the run is over, every failed connection attempt on a host that is
\* not the last of the list was followed, in the same sweep, by an attempt on
\* the next host.
C7_ConnectFailureSkipsHost ==
    pc = "exited" =>
        \A i \in DOMAIN log :
            (log[i].op = "connect_error" /\ log[i].host < Len(hosts))
                => \E j \in (i + 1)..Len(log) :
                     /\ log[j].ph = log[i].ph
                     /\ log[j].op \in ConnectOps
                     /\ log[j].host = log[i].host + 1

----------------------------------------------------------------------------
(* Running the command again *)

\* C8: when the previous invocation completed its retention sweep, this one
\* finds every collection as large as it was left, matches no document in
\* it, and leaves the database as it found it.
C8_SecondRunRemovesNothing ==
    (run > 1 /\ prevSwept) =>
        /\ db = dbAtStart
        /\ \A i \in DOMAIN results :
             /\ results[i].removed = 0
             /\ results[i].total = prevResults[i].left
             /\ results[i].left = results[i].total

\* the first sweep removed a document, the second sweep is complete
C8_Witness ==
    /\ run = 2 /\ prevSwept /\ swept
    /\ \E i \in DOMAIN prevResults :
         prevResults[i].removed > 0 /\ prevResults[i].left > 0

----------------------------------------------------------------------------
(* When the retention sweep runs *)

\* C10: unless --retention is a positive integer, no connection is made for
\* the retention sweep and no document is deleted.
C10_SkippedUnlessPositive ==
    ~(argRetention.kind = "int" /\ argRetention.n > 0)
        => /\ \A i \in DOMAIN log : log[i].ph # "retention"
           /\ db = dbAtStart


----------------------------------------------------------------------------
(* The cut-off date *)

\* days from 1970-01-01 to the civil date (y, m, d), counted by 400-year eras
\* of 146097 days with the year starting in March
DaysFromCivil(y, m, d) ==
    LET yy  == IF m <= 2 THEN y - 1 ELSE y
        era == yy \div 400
        yoe == yy - era * 400
        mp  == IF m > 2 THEN m - 3 ELSE m + 9
        doy == ((153 * mp + 2) \div 5) + d - 1
        doe == yoe * 365 + (yoe \div 4) - (yoe \div 100) + doy
    IN  era * 146097 + doe - 719468

\* the month today's month becomes n months earlier, counted in months since
\* January of year 0
TargetIndex == today.year * 12 + (today.month - 1) - retention.n

LastDayOf(y, m) == CHOOSE d \in 28..31 :
    /\ DaysFromCivil(y, m, d) - DaysFromCivil(y, m, 1) = d - 1
    /\ DaysFromCivil(IF m = 12 THEN y + 1 ELSE y, IF m = 12 THEN 1 ELSE m + 1, 1)
          - DaysFromCivil(y, m, d) = 1

ExpectedDate ==
    LET y == TargetIndex \div 12
        m == (TargetIndex % 12) + 1
    IN  [year |-> y, month |-> m,
         day |-> IF today.day > LastDayOf(y, m) THEN LastDayOf(y, m)
                 ELSE today.day]

\* C11 as amended: for every N >= 0 and every date, when today minus N months
\* is not before January of year 1 the computation succeeds, the cut-off date
\* is in the month N months before today's, on today's day of the month or
\* on the last day of that month when it is shorter, and the cut-off
\* timestamp is the milliseconds from the epoch to that date at 00:00:00 UTC;
\* when it is before year 1 the computation raises OverflowError.
C11_CutOffDate ==
    pc = "date_done" =>
        IF TargetIndex >= 12
        THEN /\ outcome = "computed"
             /\ cut_off_date = ExpectedDate
             /\ cut_off.day = DaysFromCivil(cut_off_date.year,
                                            cut_off_date.month, cut_off_date.day)
             /\ cut_off.sec = 0 /\ cut_off.ms = 0
        ELSE outcome = "OverflowError"

\* C11 as stated: the computation never errors.
C11_NeverErrors ==
    pc = "date_done" =>
        /\ outcome = "computed"
        /\ cut_off_date = ExpectedDate

\* 2016-03-31 minus one month: 2016-02-29
C11_Witness ==
    /\ pc = "date_done"
    /\ today = [year |-> 2016, month |-> 3, day |-> 31]
    /\ retention.n = 1
    /\ cut_off_date = [year |-> 2016, month |-> 2, day |-> 29]
    /\ cut_off.day = 16860

----------------------------------------------------------------------------
(* The index rebuild sweep visits every host *)

\* the positions of the log where op was issued on collection c of host h
\* by the rebuild sweep
IndexEvents(h, c, op) ==
    { i \in DOMAIN log : /\ log[i].ph = "rebuild" /\ log[i].op = op
                         /\ log[i].host = h /\ log[i].coll = c }

\* rebuild_indexes has returned to __main__
RebuildReturned == argRebuild /\ (pc = "main_close" \/ outcome = "done")

\* rebuild_indexes has left its host loop
RebuildLoopLeft == RebuildReturned \/ outcome = "secondary_not_found"

\* C12: the rebuild sweep connects to the hosts in list order, each once, and
\* to all of them once its loop is left, a secondary met on the way does not
\* end it; a reindex always directly follows the fetch of the index metadata
\* of the same collection on the same host; and when the sweep has returned
\* normally, every (host that answered non-primary, collection) pair has had
\* its index metadata fetched once and its reindex issued once.
C12_RebuildVisitsAll ==
    /\ \A i \in DOMAIN Attempts("rebuild") : Attempts("rebuild")[i].host = i
    /\ RebuildLoopLeft => Len(Attempts("rebuild")) = Len(hosts)
    /\ \A i \in DOMAIN log :
          log[i].op = "reindex"
              => i > 1 /\ log[i - 1] = [log[i] EXCEPT !.op = "index_information"]
    /\ RebuildReturned =>
          \A h \in DOMAIN hosts, c \in DOMAIN db :
              Reported("rebuild", h, "isMaster=false")
                  => /\ Cardinality(IndexEvents(h, c, "index_information")) = 1
                     /\ Cardinality(IndexEvents(h, c, "reindex")) = 1

\* two secondaries and two collections: the sweep has returned with all four
\* pairs reindexed
C12_Witness ==
    /\ RebuildReturned
    /\ Len(hosts) = 2 /\ Len(db) = 2
    /\ \A h \in DOMAIN hosts : Reported("rebuild", h, "isMaster=false")
    /\ \A h \in DOMAIN hosts, c \in DOMAIN db :
          IndexEvents(h, c, "reindex") # {}

----------------------------------------------------------------------------
(* Documents without a timestamp field *)

\* the documents of a collection that carry a timestamp field
Stamped(coll) == Count(coll) - coll[NoTs]

\* C13: the retention sweep never counts a document without a timestamp
\* field as a match and never deletes one: in every collection the number of
\* such documents stays what it was when the run began, every reported match
\* count is at most the number of documents that carry the field, and a
\* collection in which no document carries it reports zero matches and is
\* left exactly as it was.
C13_MissingTimestampUntouched ==
    /\ \A c \in DOMAIN db : db[c][NoTs] = dbAtStart[c][NoTs]
    /\ \A i \in DOMAIN results :
          LET c == results[i].coll
          IN  /\ results[i].removed <= Stamped(dbAtStart[c])
              /\ results[i].left >= dbAtStart[c][NoTs]
              /\ Stamped(dbAtStart[c]) = 0
                    => results[i].removed = 0 /\ db[c] = dbAtStart[c]

\* a completed sweep that deleted documents went over a collection holding
\* a document without the field
C13_Witness ==
    /\ swept
    /\ \E i \in DOMAIN results : results[i].removed > 0
    /\ \E i \in DOMAIN results :
          /\ dbAtStart[results[i].coll][NoTs] > 0
          /\ db[results[i].coll][NoTs] > 0

----------------------------------------------------------------------------
(* A connect that fails *)

\* a direct call of connect on a host where building the client fails
ConnectFailStep == ConnectStep /\ hosts[lastCall'.arg] = "unreachable"

\* what the log gains by such a call: the close of the connection that was
\* open, if any, and the error
ConnectFailTrace ==
    (IF conn # 0 THEN <<Ev("close", conn, 0)>> ELSE <<>>)
        \o <<Ev("connect_error", lastCall'.arg, 0)>>

\* C14: a connect whose client cannot be built returns to its caller without
\* an exception and leaves the connection unset; after it no connection is
\* open on any host, the one that was open before the call having been closed
\* before the attempt.
C14_FailedConnectLeavesUnset ==
    [][ConnectFailStep =>
          /\ lastCall'.res = "returned"
          /\ conn' = 0
          /\ TotalOpen' = 0
          /\ log' = log \o ConnectFailTrace]_vars

\* a connect has just failed on a connection that was open on another host:
\* that connection is closed and none is set
C14_Witness ==
    /\ lastCall.op = "connect"
    /\ hosts[lastCall.arg] = "unreachable"
    /\ conn = 0 /\ TotalOpen = 0
    /\ Len(log) >= 3
    /\ log[Len(log)].op = "connect_error"
    /\ log[Len(log) - 1].op = "close"
    /\ log[Len(log) - 2].op = "open"

----------------------------------------------------------------------------
(* The role query with and without a connection *)

\* a step that is a direct call of is_master
IsMasterStep == lastCall'.op = "is_master" /\ ncalls' = ncalls + 1

\* the answer of the host the connection is open on
RoleOf(h) == IF hosts[h] = "primary" THEN "true" ELSE "false"

\* C15: is_master called while no connection is set (never opened, closed, or
\* left unset by a failed connect) ends in an error that reaches the caller,
\* never in a boolean, and asks no host; called on an open connection it
\* never ends in that error, and what it returns is the role the connected
\* host reports (the only other end is the driver's error when the command
\* itself fails).  The connection is left as it was either way.
C15_IsMasterNeedsConnection ==
    [][IsMasterStep =>
          /\ UNCHANGED <<conn, open>>
          /\ IF conn = 0
             THEN lastCall'.res = "TypeError" /\ log' = log
             ELSE \/ lastCall'.res = "PyMongoError" /\ log' = log
                  \/ /\ lastCall'.res = RoleOf(conn)
                     /\ log' = Append(log,
                            Ev("isMaster=" \o RoleOf(conn), conn, 0))]_vars

\* a primary answered the query on an open connection; then a connect failed
\* and the query, asked again with the connection unset, ended in the error
C15_Witness ==
    /\ lastCall.op = "is_master" /\ lastCall.res = "TypeError"
    /\ conn = 0
    /\ Len(log) >= 2
    /\ log[Len(log)].op = "connect_error"
    /\ \E i \in DOMAIN log : log[i].op = "isMaster=true"

----------------------------------------------------------------------------
(* A driver error in the middle of a sweep *)

\* the last driver call of the run
Last == log[Len(log)]

\* the run was ended by a driver error on a call of kind ops
FailedOn(ops) == outcome = "PyMongoError" /\ log # <<>> /\ Last.op \in ops

\* collection c is as the sweep leaves it: the old documents gone, the rest
\* as when the run began
SweptColl(c) ==
    \A k \in DocKinds : db[c][k] = IF IsOld(k) THEN 0 ELSE dbAtStart[c][k]

\* the driver calls the retention sweep made on collection c
CallsOn(c) ==
    { i \in DOMAIN log : log[i].ph = "retention" /\ log[i].coll = c }

\* C16: a driver error on a count, a delete or a reindex ends the run at
\* once with status 1.  When it happened in the retention sweep on collection
\* c, the collections before c are swept and stay so, the collections after
\* c are as they were and were never operated on, c itself is untouched if
\* the error came before the delete and swept if it came after it, and the
\* rebuild sweep never begins.  When it happened in the rebuild sweep on
\* collection c of host h, nothing was issued on a later collection of h or
\* on any later host (the only trace of another host is the closing of the
\* connection the retention sweep left), and what the retention sweep
\* removed stays removed.
C16_DriverErrorAborts ==
    /\ FailedOn(DataOps \cup IndexOps) => pc = "exited" /\ exitStatus = 1
    /\ FailedOn(DataOps) =>
          /\ \A i \in DOMAIN log : log[i].ph = "retention"
          /\ ~swept
          /\ \A c \in DOMAIN db :
                /\ c < Last.coll => SweptColl(c) /\ Cardinality(CallsOn(c)) = 4
                /\ c > Last.coll => db[c] = dbAtStart[c] /\ CallsOn(c) = {}
                /\ c = Last.coll =>
                      /\ SweptColl(c) \/ db[c] = dbAtStart[c]
                      /\ Cardinality(CallsOn(c)) < 3 => db[c] = dbAtStart[c]
                      /\ Cardinality(CallsOn(c)) > 3 => SweptColl(c)
    /\ FailedOn(IndexOps) =>
          /\ \A i \in DOMAIN log :
                log[i].ph = "rebuild" /\ log[i].op # "close" =>
                    /\ log[i].host <= Last.host
                    /\ log[i].host = Last.host => log[i].coll <= Last.coll
          /\ Truthy(retention) =>
                swept /\ \A c \in DOMAIN db : SweptColl(c)
          /\ ~Truthy(retention) => db = dbAtStart

\* the delete failed on the second collection and took no effect: the first
\* collection has lost its old documents, the second still holds its own
C16_Witness ==
    /\ FailedOn({"remove"})
    /\ Last.coll = 2
    /\ results # <<>> /\ results[1].removed > 0
    /\ \E k \in DocKinds : IsOld(k) /\ db[2][k] > 0

----------------------------------------------------------------------------
(* The order of the two sweeps *)

\* the positions of the log written by sweep ph
PhaseEvents(ph) == { i \in DOMAIN log : log[i].ph = ph }

\* the retention sweep was entered in this run
RetentionEntered == Truthy(retention) /\ pc # "main_retention"

\* C17: when the retention sweep was entered and the rebuild sweep has made
\* its first connection attempt, the retention sweep had run to completion
\* before it: it reported on every collection, and everything it did comes
\* before everything the rebuild sweep did.  A retention sweep that ends in
\* the primary-not-found exit, or in any other failure, ends the run: the
\* rebuild sweep makes no connection attempt and issues no reindex.
C17_RetentionBeforeRebuild ==
    /\ RetentionEntered /\ PhaseEvents("rebuild") # {} =>
          /\ swept
          /\ Len(results) = Len(db)
          /\ \A i \in PhaseEvents("retention"), j \in PhaseEvents("rebuild") :
                i < j
    /\ RetentionEntered /\ ~swept /\ pc = "exited" =>
          /\ exitStatus = 1
          /\ PhaseEvents("rebuild") = {}
    /\ outcome = "primary_not_found" =>
          /\ pc = "exited" /\ exitStatus = 1
          /\ PhaseEvents("rebuild") = {}
          /\ \A i \in DOMAIN log : log[i].op # "reindex"

\* both sweeps were asked for and ran: the run ended normally with a delete
\* of the retention sweep followed by a reindex of the rebuild sweep
C17_Witness ==
    /\ Truthy(retention) /\ argRebuild
    /\ outcome = "done"
    /\ \E i \in PhaseEvents("retention"), j \in PhaseEvents("rebuild") :
          log[i].op = "remove" /\ log[j].op = "reindex"

----------------------------------------------------------------------------
(* The end of a normal run *)

\* the positions of the log where a connection was opened
Opens == { i \in DOMAIN log : log[i].op = "open" }

\* C18: a run that ends with status 0, whichever sweeps it ran or skipped,
\* ends with no connection set and none open on any host; if a sweep opened
\* a connection, the last thing the run did was the closing, by the final
\* close call of __main__, of the connection opened last.
C18_NormalEndClosed ==
    exitStatus = 0 =>
        /\ pc = "exited" /\ outcome = "done"
        /\ conn = 0
        /\ TotalOpen = 0
        /\ Opens # {} =>
              /\ Last.op = "close" /\ Last.ph = "main"
              /\ \E i \in Opens :
                    /\ \A j \in Opens : j <= i
                    /\ Last.host = log[i].host
        /\ Opens = {} => log = <<>>

\* both sweeps ran, on different hosts, and the run ended with status 0 on
\* the final close
C18_Witness ==
    /\ exitStatus = 0
    /\ \E i, j \in Opens : log[i].ph = "retention" /\ log[j].ph = "rebuild"
    /\ Last.op = "close" /\ Last.ph = "main"
    /\ TotalOpen = 0

====
